---------------------------- MODULE Spec2Model ----------------------------
(***************************************************************************)
(* pa-chart: a single sequential process that polls a PurpleAir sensor,    *)
(* appends a derived sample to a CSV series file, renders the series and   *)
(* truncates old records on three cadences (src/pa_chart.py, main).        *)
(*                                                                         *)
(* The model holds the process (its position in main(), its three cadence  *)
(* clocks, the retry wrapper's counters) and the two files it owns on      *)
(* disk: the series file and the truncation checkpoint.                    *)
(***************************************************************************)
EXTENDS Integers, Sequences, FiniteSets, TLC

VARIABLES
    config,                     \* the values of config.py used by main()
    policy,                     \* the retry decorator's parameters
    now,                        \* the wall clock, as datetime.now() reads it
    pc,                         \* where the process is in main()
    log_delay_loop_start,       \* main(): last fire of the log cadence
    plot_delay_loop_start,      \* main(): last fire of the render cadence
    truncate_delay_loop_start,  \* main(): last fire of the truncation cadence
    dataFile,                   \* the series file on disk
    ckptFile,                   \* truncate_delay_loop_start.txt on disk
    image,                      \* what the last render drew
    attempts,                   \* retry.wrapper: failed attempts so far
    calls,                      \* invocations of the wrapped function in this call
    served,                     \* what each of those invocations met, in order
    waits,                      \* the sleeps of this call, in order
    retryLog,                   \* the logger.exception events of this call
    response,                   \* what get_live_reading handed back
    tick,                       \* the hour read at the gate, and what fired since
    last,                       \* the last store operation and the file before it
    fault,                      \* the exception that ended the process, if any
    nTicks,                     \* sleeps taken (bounded)
    nRestarts                   \* restarts taken (bounded)

vars == << config, policy, now, pc, log_delay_loop_start, plot_delay_loop_start,
           truncate_delay_loop_start, dataFile, ckptFile, image, attempts,
           calls, served, waits, retryLog, response, tick, last, fault, nTicks,
           nRestarts >>

---------------------------------------------------------------------------
(* Bounds of the model. *)

MaxTicks == 3
MaxRestarts == 1
MaxRecords == 3

---------------------------------------------------------------------------
(* Time.  An instant is a datetime: whole seconds and microseconds.        *)

SecondsPerHour == 3600
HoursPerDay == 24
SecondsPerDay == SecondsPerHour * HoursPerDay

Instant(s, us) == [s |-> s, us |-> us]

\* datetime.now().hour
Hour(t) == (t.s \div SecondsPerHour) % HoursPerDay

\* (a - b).total_seconds() > secs
ElapsedExceeds(a, b, secs) ==
    \/ a.s - b.s > secs
    \/ (a.s - b.s = secs /\ a.us > b.us)

\* (a - b).total_seconds() / 3600 > hours
ElapsedHoursExceed(a, b, hours) == ElapsedExceeds(a, b, hours * SecondsPerHour)

\* a >= b on datetimes
NotBefore(a, b) == a.s > b.s \/ (a.s = b.s /\ a.us >= b.us)

\* t - timedelta(days=d)
MinusDays(t, d) == Instant(t.s - d * SecondsPerDay, t.us)

---------------------------------------------------------------------------
(* Text.  A piece of text is kept as the format it is written in and the   *)
(* instant or number it spells, so that formatting and parsing are the     *)
(* conversions the code performs and can fail as they do.                  *)

FmtT == "%Y-%m-%dT%H:%M:%S"           \* the series file's timestamp format
FmtTUnpadded == "%Y-%m-%dT%H:%M:%S unpadded"  \* same fields, not zero-padded
FmtStr == "%Y-%m-%d %H:%M:%S"         \* str(datetime) when microsecond = 0
FmtStrF == "%Y-%m-%d %H:%M:%S.%f"     \* str(datetime) when microsecond # 0
FmtNum == "number"                    \* str() of a number
FmtJunk == "junk"                     \* text that spells neither

Text(fmt, s, us) == [fmt |-> fmt, s |-> s, us |-> us]
Word(w) == Text(w, 0, 0)

\* dt.strftime('%Y-%m-%dT%H:%M:%S'): the microseconds are dropped
Strftime(t) == Text(FmtT, t.s, 0)

\* str(dt): the fraction is written only when it is not zero
StrDatetime(t) == IF t.us = 0 THEN Text(FmtStr, t.s, 0) ELSE Text(FmtStrF, t.s, t.us)

\* datetime.strptime(x, '%Y-%m-%dT%H:%M:%S') succeeds
ParsesT(x) == x.fmt \in {FmtT, FmtTUnpadded}
StrptimeT(x) == Instant(x.s, 0)

\* datetime.strptime(x, '%Y-%m-%d %H:%M:%S.%f') succeeds
ParsesStrF(x) == x.fmt = FmtStrF
StrptimeStrF(x) == Instant(x.s, x.us)

\* str(number) as csv.writer writes it, and float(x)
StrNum(v) == Text(FmtNum, v, 0)
ParsesFloat(x) == x.fmt = FmtNum
Float(x) == x.s

---------------------------------------------------------------------------
(* Files.  A file is absent, or a sequence of lines; a line of the series  *)
(* file is the sequence of its comma-separated cells.                      *)

Absent == [exists |-> FALSE, lines |-> << >>]
File(lines) == [exists |-> TRUE, lines |-> lines]

\* write_data: writer.writerow(['datetime', 'pm25_epa_aqi'])
HeaderRow == << Word("datetime"), Word("pm25_epa_aqi") >>

\* A sample as the reader returns it.
Sample(t, v) == [t |-> t, v |-> v]


---------------------------------------------------------------------------
(* The series store: write_data, the reading loop of plot_csv_to_jpg and   *)
(* truncate_earliest_data, as functions of the file they act on.           *)

\* A variant of write_data that writes the header only when the file is absent.
write_data_header_if_absent(pm25_epa_aqi, conn_success, file, t) ==
    IF ~conn_success THEN file
    ELSE LET header == IF ~file.exists THEN << HeaderRow >> ELSE << >>
         IN  File(file.lines \o header \o << << Strftime(t), StrNum(pm25_epa_aqi) >> >>)

\* A variant of write_data that writes the header on every append.
write_data_header_always(pm25_epa_aqi, conn_success, file, t) ==
    IF ~conn_success THEN file
    ELSE File(file.lines \o << HeaderRow >> \o << << Strftime(t), StrNum(pm25_epa_aqi) >> >>)

\* A variant of write_data that opens the file with mode 'w'.
write_data_overwrite(pm25_epa_aqi, conn_success, file, t) ==
    IF ~conn_success THEN file
    ELSE File(<< HeaderRow, << Strftime(t), StrNum(pm25_epa_aqi) >> >>)

\* write_data(pm25_epa_aqi, conn_success, full_data_file_path), called at
\* instant t: the file after the call.
write_data(pm25_epa_aqi, conn_success, file, t) ==
    IF ~conn_success THEN file
    ELSE LET file_empty == ~file.exists \/ file.lines = << >>
             header == IF file_empty THEN << HeaderRow >> ELSE << >>
         IN  File(file.lines \o header \o << << Strftime(t), StrNum(pm25_epa_aqi) >> >>)

\* csv.DictReader yields no row for an empty line.
Rows(lines) == SelectSeq(lines, LAMBDA r : r # << >>)

\* plot_csv_to_jpg, lines 254-268: open, skip the header row, parse each row.
\* raised: the exception that leaves the loop, "" if none.
ReadSeries(file) ==
    LET rows == IF file.exists /\ file.lines # << >> THEN Tail(file.lines) ELSE << >>
        shortRow == \E i \in 1..Len(rows) : Len(rows[i]) = 0
        parsed == SelectSeq(rows, LAMBDA r : ParsesT(r[1]))
        badValue == \E i \in 1..Len(parsed) :
                        Len(parsed[i]) < 2 \/ ~ParsesFloat(parsed[i][2])
        raised == IF ~file.exists THEN "FileNotFoundError"
                  ELSE IF file.lines = << >> THEN "StopIteration"
                  ELSE IF shortRow THEN "IndexError"
                  ELSE IF badValue THEN "ValueError"
                  ELSE ""
    IN  [raised |-> raised,
         skipped |-> IF raised = "" THEN Len(rows) - Len(parsed) ELSE 0,
         series |-> IF raised = ""
                    THEN [i \in 1..Len(parsed) |->
                            Sample(StrptimeT(parsed[i][1]), Float(parsed[i][2]))]
                    ELSE << >>]

\* plot_csv_to_jpg: the reading loop, then average = int(sum(values) / len(values)).
\* The drawing itself is the external render sink: the result is the series drawn.
plot_csv_to_jpg(file) ==
    LET r == ReadSeries(file)
    IN  IF r.raised # "" THEN [raised |-> r.raised, drawn |-> << >>]
        ELSE IF r.series = << >> THEN [raised |-> "ZeroDivisionError", drawn |-> << >>]
        ELSE [raised |-> "", drawn |-> r.series]

\* The column of 'datetime' in csv.DictReader's fieldnames, 0 if there is none.
DatetimeColumn(fieldnames) ==
    IF \E i \in 1..Len(fieldnames) : fieldnames[i] = Word("datetime")
    THEN CHOOSE i \in 1..Len(fieldnames) :
            /\ fieldnames[i] = Word("datetime")
            /\ \A j \in 1..(i - 1) : fieldnames[j] # Word("datetime")
    ELSE 0

\* max(row['datetime'] for row in data), data not empty
LatestDate(data, col) ==
    LET i == CHOOSE i \in 1..Len(data) :
                \A j \in 1..Len(data) : NotBefore(StrptimeT(data[i][col]), StrptimeT(data[j][col]))
    IN  StrptimeT(data[i][col])

\* A variant of the retention test that drops the record on the cutoff itself.
KeepsRowStrict(d, cutoff_date) == NotBefore(d, cutoff_date) /\ d # cutoff_date

\* A variant of the early return that never takes it.
NeverNothingToTruncate(filtered_data, data) == FALSE

\* truncate_earliest_data, line 170: row['datetime'] >= cutoff_date
KeepsRow(d, cutoff_date) == NotBefore(d, cutoff_date)

\* truncate_earliest_data, line 171: len(filtered_data) == len(data)
NothingToTruncate(filtered_data, data) == Len(filtered_data) = Len(data)

\* truncate_earliest_data(full_data_file_path, days_to_log): the file after the
\* call, whether the file was opened for writing, and the exception raised.
truncate_earliest_data(file, days_to_log) ==
    LET fieldnames == IF file.lines = << >> THEN << >> ELSE file.lines[1]
        data == IF file.lines = << >> THEN << >> ELSE Rows(Tail(file.lines))
        col == DatetimeColumn(fieldnames)
        same(raised) == [file |-> file, wrote |-> FALSE, raised |-> raised]
    IN  IF ~file.exists THEN same("")          \* FileNotFoundError: logged, return
        ELSE IF data # << >> /\ col = 0 THEN same("KeyError")
        ELSE IF \E i \in 1..Len(data) : Len(data[i]) < col THEN same("TypeError")
        ELSE IF \E i \in 1..Len(data) : ~ParsesT(data[i][col]) THEN same("ValueError")
        ELSE IF data = << >> THEN same("ValueError")   \* max() of an empty sequence
        ELSE
          LET cutoff_date == MinusDays(LatestDate(data, col), days_to_log)
              filtered_data == SelectSeq(data,
                                LAMBDA r : KeepsRow(StrptimeT(r[col]), cutoff_date))
              reformatted == [i \in 1..Len(filtered_data) |->
                                [filtered_data[i] EXCEPT
                                    ![col] = Strftime(StrptimeT(filtered_data[i][col]))]]
          IN  IF NothingToTruncate(filtered_data, data) THEN same("")
              ELSE [file |-> File(<< fieldnames >> \o reformatted),
                    wrote |-> TRUE, raised |-> ""]

---------------------------------------------------------------------------
(* Configuration (src/config.py) and the retry decorator's parameters.     *)

\* config.py as shipped.
ShippedConfig ==
    [use_default_storage_paths |-> TRUE,
     logging_interval |-> 120, plotting_interval |-> 240,
     logging_start_hour |-> 0, logging_finish_hour |-> 24,
     truncate_interval |-> 24, days_to_log |-> 14]

\* The configurations the model runs: the shipped one, the shipped one with
\* custom storage paths, and two with a narrower logging window and a
\* one-day retention.
Configs ==
    { ShippedConfig,
      [ShippedConfig EXCEPT !.use_default_storage_paths = FALSE, !.days_to_log = 1],
      [ShippedConfig EXCEPT !.use_default_storage_paths = FALSE, !.days_to_log = 1,
                            !.logging_start_hour = 1, !.logging_finish_hour = 2] }

\* @retry(max_attempts=8, delay=90, escalation=160, ...) on get_live_reading,
\* and the decorator's defaults.
AppliedPolicy == [max_attempts |-> 8, delay |-> 90, escalation |-> 160]
DefaultPolicy == [max_attempts |-> 3, delay |-> 2, escalation |-> 10]
Policies == { AppliedPolicy, DefaultPolicy, [DefaultPolicy EXCEPT !.max_attempts = 1] }

---------------------------------------------------------------------------
(* The environment: the clock and the sensor.                              *)

\* How far the clock has moved when sleep(1) returns, in seconds.
SleepSteps == { 1, SecondsPerHour, SecondsPerDay }
\* The microsecond part datetime.now() may read.
Micros == { 0, 250000 }

\* index values AQI.calculate returns
AqiValues == { 42, 155 }

\* One invocation of requests.get inside get_live_reading: a response (2xx or
\* not, with a body that holds the expected fields or not), an exception of a
\* class named in the decorator, or any other exception.
Outcome(kind, ok, body, aqi) == [kind |-> kind, ok |-> ok, body |-> body, aqi |-> aqi]
NoResponse == Outcome("none", FALSE, "", 0)
FetchOutcomes ==
    { Outcome("response", TRUE, "fields", v) : v \in AqiValues }
    \cup { Outcome("response", FALSE, "fields", 0) }
    \cup { Outcome("response", ok, b, 0) : ok \in BOOLEAN, b \in {"missing_field", "not_json"} }
    \cup { Outcome("RequestException", FALSE, "", 0), Outcome("OtherException", FALSE, "", 0) }

\* What opening the series file for an append can raise: nothing, or an
\* OSError (permission denied, disk full, read-only file system).
WriteFaults == { "", "OSError" }

\* process_sensor_reading(live_response) raises on a body it cannot use.
process_sensor_reading_raises(r) ==
    IF r.body = "not_json" THEN "JSONDecodeError"
    ELSE IF r.body = "missing_field" THEN "KeyError"
    ELSE ""

---------------------------------------------------------------------------
(* The process.                                                            *)

NoInstant == Instant(0, 0)
NoCheckpoint == [exists |-> FALSE, text |-> Word("")]
Checkpoint(text) == [exists |-> TRUE, text |-> text]
NoOp == [op |-> "none", prev |-> "none", prevWrote |-> FALSE, before |-> Absent,
         at |-> NoInstant, v |-> 0, wrote |-> FALSE, raised |-> ""]
StoreOp(op, before, v, wrote, raised) ==
    [op |-> op, prev |-> last.op, prevWrote |-> last.wrote, before |-> before,
     at |-> now, v |-> v, wrote |-> wrote, raised |-> raised]

Running == { "gate", "log", "fetch", "body", "plot", "trunc", "sleep" }

\* main(), line 373: the time-of-day gate
InWindow(h) == config.logging_start_hour < h /\ h <= config.logging_finish_hour

Init ==
    /\ config \in Configs
    /\ policy \in Policies
    /\ now \in { Instant(0, us) : us \in Micros }
    /\ pc = "stopped"
    /\ log_delay_loop_start = NoInstant
    /\ plot_delay_loop_start = NoInstant
    /\ truncate_delay_loop_start = NoInstant
    /\ dataFile = Absent
    /\ ckptFile = NoCheckpoint
    /\ image = << >>
    /\ attempts = 0
    /\ calls = 0
    /\ served = << >>
    /\ waits = << >>
    /\ retryLog = << >>
    /\ response = NoResponse
    /\ tick = [hour |-> 0, did |-> {}]
    /\ last = NoOp
    /\ fault = ""
    /\ nTicks = 0
    /\ nRestarts = 0

\* An uncaught exception leaves main(): the process ends with a traceback.
Crash(e) == pc' = "crashed" /\ fault' = e

\* init(), line 351: strptime raises on text that does not match the format
CheckpointValueError == "ValueError: time data does not match format '%Y-%m-%d %H:%M:%S.%f'"

\* init(), lines 337-356, called from main() line 370.
init ==
    /\ pc = "stopped"
    /\ IF config.use_default_storage_paths
       THEN \* truncate_delay_loop_start_file is assigned in the else branch only
            /\ Crash("UnboundLocalError")
            /\ UNCHANGED << ckptFile, truncate_delay_loop_start, log_delay_loop_start,
                            plot_delay_loop_start >>
       ELSE IF ckptFile.exists
       THEN IF ParsesStrF(ckptFile.text)
            THEN /\ truncate_delay_loop_start' = StrptimeStrF(ckptFile.text)
                 /\ log_delay_loop_start' = now
                 /\ plot_delay_loop_start' = now
                 /\ pc' = "gate"
                 /\ UNCHANGED << ckptFile, fault >>
            ELSE /\ Crash(CheckpointValueError)
                 /\ UNCHANGED << ckptFile, truncate_delay_loop_start,
                                 log_delay_loop_start, plot_delay_loop_start >>
       ELSE /\ truncate_delay_loop_start' = now
            /\ ckptFile' = Checkpoint(StrDatetime(now))
            /\ log_delay_loop_start' = now
            /\ plot_delay_loop_start' = now
            /\ pc' = "gate"
            /\ UNCHANGED fault
    /\ UNCHANGED << config, policy, now, dataFile, image, attempts, calls, served, waits,
                    retryLog, response, tick, last, nTicks, nRestarts >>

\* The process is stopped from outside (KeyboardInterrupt, line 416, or a kill):
\* its memory is gone, the files stay.
Stop ==
    /\ pc \in Running
    /\ nRestarts < MaxRestarts
    /\ nRestarts' = nRestarts + 1
    /\ pc' = "stopped"
    /\ log_delay_loop_start' = NoInstant
    /\ plot_delay_loop_start' = NoInstant
    /\ truncate_delay_loop_start' = NoInstant
    /\ attempts' = 0 /\ calls' = 0 /\ served' = << >> /\ waits' = << >> /\ retryLog' = << >>
    /\ response' = NoResponse
    /\ tick' = [hour |-> 0, did |-> {}]
    /\ UNCHANGED << config, policy, now, dataFile, ckptFile, image, last, fault, nTicks >>

\* Time passes while the process is stopped.
Away ==
    /\ pc = "stopped"
    /\ nRestarts > 0
    /\ nTicks < MaxTicks
    /\ nTicks' = nTicks + 1
    /\ \E d \in SleepSteps, us \in Micros : now' = Instant(now.s + d, us)
    /\ UNCHANGED << config, policy, pc, log_delay_loop_start, plot_delay_loop_start,
                    truncate_delay_loop_start, dataFile, ckptFile, image, attempts,
                    calls, served, waits, retryLog, response, tick, last, fault, nRestarts >>

\* main(), line 373
Gate ==
    /\ pc = "gate"
    /\ tick' = [hour |-> Hour(now), did |-> {}]
    /\ pc' = IF InWindow(Hour(now)) THEN "log" ELSE "sleep"
    /\ UNCHANGED << config, policy, now, log_delay_loop_start, plot_delay_loop_start,
                    truncate_delay_loop_start, dataFile, ckptFile, image, attempts,
                    calls, served, waits, retryLog, response, last, fault, nTicks, nRestarts >>

\* main(), lines 374-376: the log cadence's test, and the call of get_live_reading
LogCadence ==
    /\ pc = "log"
    /\ IF ElapsedExceeds(now, log_delay_loop_start, config.logging_interval)
       THEN /\ pc' = "fetch"
            /\ attempts' = 0 /\ calls' = 0 /\ served' = << >> /\ waits' = << >> /\ retryLog' = << >>
            /\ response' = NoResponse
            /\ tick' = [tick EXCEPT !.did = @ \cup {"log"}]
       ELSE /\ pc' = "plot"
            /\ UNCHANGED << attempts, calls, served, waits, retryLog, response, tick >>
    /\ UNCHANGED << config, policy, now, log_delay_loop_start, plot_delay_loop_start,
                    truncate_delay_loop_start, dataFile, ckptFile, image, last, fault,
                    nTicks, nRestarts >>

\* A variant of get_live_reading that raises for a non-success status, as
\* response.raise_for_status() would.
RaisesForStatus(o) ==
    IF o.kind = "response" THEN (IF o.ok THEN "" ELSE "RequestException") ELSE o.kind

\* A variant of the loop test that gives up one invocation early.
LoopConditionOneFewer(p, n) == n + 1 < p.max_attempts

\* A variant of the loop test that allows one invocation more.
LoopConditionOneMore(p, n) == n <= p.max_attempts

\* A variant of the delay computed after the attempt was counted.
adjusted_delay_after_increment(p, n) == p.delay + p.escalation * (n + 1)

\* A variant of the except clause that catches every exception, as the
\* decorator's default exception=(Exception,) would.
RetriedAny(kind) == TRUE

\* retry.wrapper, line 54: the exception classes the decorator names
Retried(kind) == kind = "RequestException"

\* get_live_reading, lines 105-111: the exception one invocation with outcome o
\* raises, "" if it returns (it returns whatever the response's status)
Raises(o) == IF o.kind = "response" THEN "" ELSE o.kind

\* retry.wrapper, line 55
adjusted_delay(p, n) == p.delay + p.escalation * n

\* retry.wrapper, line 51: while attempts < max_attempts
LoopCondition(p, n) == n < p.max_attempts

\* retry.wrapper, line 58: if attempts < max_attempts
SleepCondition(p, n) == n < p.max_attempts

\* logger.exception('Error in %s(): attempt #%d of %d', ...) at the given line;
\* the traceback logged is that of the exception being handled, if any.
LogEvent(line, n, p, exc_info) ==
    [line |-> line, attempt |-> n, of |-> p.max_attempts, exc_info |-> exc_info]

\* get_live_reading under retry.wrapper: one pass of the loop of lines 51-59,
\* with outcome o of requests.get.
get_live_reading(o) ==
    /\ pc = "fetch"
    /\ LoopCondition(policy, attempts)
    /\ calls' = calls + 1
    /\ served' = Append(served, o)
    /\ IF Raises(o) = ""
       THEN /\ response' = o
            /\ pc' = "body"
            /\ UNCHANGED << attempts, waits, retryLog, now, fault, nTicks >>
       ELSE IF Retried(Raises(o))
       THEN /\ attempts' = attempts + 1
            /\ retryLog' = Append(retryLog, LogEvent(57, attempts + 1, policy, Raises(o)))
            /\ IF SleepCondition(policy, attempts + 1)
               THEN /\ nTicks < MaxTicks
                    /\ nTicks' = nTicks + 1
                    /\ waits' = Append(waits, adjusted_delay(policy, attempts))
                    /\ now' = Instant(now.s + adjusted_delay(policy, attempts), now.us)
               ELSE UNCHANGED << waits, now, nTicks >>
            /\ pc' = "fetch"
            /\ UNCHANGED << response, fault >>
       ELSE /\ Crash(Raises(o))
            /\ UNCHANGED << attempts, waits, retryLog, now, response, nTicks >>
    /\ UNCHANGED << config, policy, log_delay_loop_start, plot_delay_loop_start,
                    truncate_delay_loop_start, dataFile, ckptFile, image, tick, last,
                    nRestarts >>

\* retry.wrapper, lines 60-61: the loop has ended without a return
retry_exhausted ==
    /\ pc = "fetch"
    /\ ~LoopCondition(policy, attempts)
    /\ retryLog' = Append(retryLog, LogEvent(60, attempts, policy, "None"))
    /\ pc' = "exited"                           \* sys.exit()
    /\ UNCHANGED << config, policy, now, log_delay_loop_start, plot_delay_loop_start,
                    truncate_delay_loop_start, dataFile, ckptFile, image, attempts,
                    calls, served, waits, response, tick, last, fault, nTicks,
                    nRestarts >>

\* main(), lines 377-387: normalise, convert, append, reset the cadence's clock
process_and_write ==
    /\ pc = "body"
    /\ IF process_sensor_reading_raises(response) # ""
       THEN /\ Crash(process_sensor_reading_raises(response))
            /\ UNCHANGED << dataFile, last, tick, log_delay_loop_start >>
       ELSE \E e \in IF response.ok THEN WriteFaults ELSE {""} :
              IF e # ""
              THEN \* write_data, lines 131-136: open() raises, nothing catches it
                   /\ Crash(e)
                   /\ UNCHANGED << dataFile, last, tick, log_delay_loop_start >>
              ELSE /\ IF response.ok
                      THEN /\ dataFile' = write_data(response.aqi, response.ok, dataFile, now)
                           /\ last' = StoreOp("write_data", dataFile, response.aqi, TRUE, "")
                           /\ tick' = [tick EXCEPT !.did = @ \cup {"append"}]
                      ELSE UNCHANGED << dataFile, last, tick >>
                   /\ log_delay_loop_start' = now
                   /\ pc' = "plot"
                   /\ UNCHANGED fault
    /\ UNCHANGED << config, policy, now, plot_delay_loop_start, truncate_delay_loop_start,
                    ckptFile, image, attempts, calls, served, waits, retryLog, response,
                    nTicks, nRestarts >>

\* main(), lines 388-406: the render cadence
PlotCadence ==
    /\ pc = "plot"
    /\ IF ElapsedExceeds(now, plot_delay_loop_start, config.plotting_interval)
       THEN /\ tick' = [tick EXCEPT !.did = @ \cup {"plot"}]
            /\ IF plot_csv_to_jpg(dataFile).raised # ""
               THEN /\ Crash(plot_csv_to_jpg(dataFile).raised)
                    /\ UNCHANGED << image, plot_delay_loop_start >>
               ELSE /\ image' = plot_csv_to_jpg(dataFile).drawn
                    /\ plot_delay_loop_start' = now
                    /\ pc' = "trunc"
                    /\ UNCHANGED fault
       ELSE /\ pc' = "trunc"
            /\ UNCHANGED << tick, image, plot_delay_loop_start, fault >>
    /\ UNCHANGED << config, policy, now, log_delay_loop_start, truncate_delay_loop_start,
                    dataFile, ckptFile, attempts, calls, served, waits, retryLog, response,
                    last, nTicks, nRestarts >>

\* main(), lines 407-413: the truncation cadence and its checkpoint
TruncateCadence ==
    /\ pc = "trunc"
    /\ IF ElapsedHoursExceed(now, truncate_delay_loop_start, config.truncate_interval)
       THEN LET r == truncate_earliest_data(dataFile, config.days_to_log)
            IN  /\ tick' = [tick EXCEPT !.did = @ \cup {"truncate"}]
                /\ IF r.raised # ""
                   THEN /\ Crash(r.raised)
                        /\ UNCHANGED << dataFile, last, truncate_delay_loop_start, ckptFile >>
                   ELSE /\ dataFile' = r.file
                        /\ last' = StoreOp("truncate_earliest_data", dataFile, 0, r.wrote, "")
                        /\ truncate_delay_loop_start' = now
                        /\ ckptFile' = Checkpoint(StrDatetime(now))
                        /\ pc' = "sleep"
                        /\ UNCHANGED fault
       ELSE /\ pc' = "sleep"
            /\ UNCHANGED << tick, dataFile, last, truncate_delay_loop_start, ckptFile, fault >>
    /\ UNCHANGED << config, policy, now, log_delay_loop_start, plot_delay_loop_start,
                    image, attempts, calls, served, waits, retryLog, response, nTicks, nRestarts >>

\* main(), line 414: sleep(1); the clock has moved by at least a second
Sleep ==
    /\ pc = "sleep"
    /\ nTicks < MaxTicks
    /\ nTicks' = nTicks + 1
    /\ \E d \in SleepSteps, us \in Micros :
          /\ d = 1 => us >= now.us
          /\ now' = Instant(now.s + d, us)
    /\ pc' = "gate"
    /\ UNCHANGED << config, policy, log_delay_loop_start, plot_delay_loop_start,
                    truncate_delay_loop_start, dataFile, ckptFile, image, attempts,
                    calls, served, waits, retryLog, response, tick, last, fault, nRestarts >>

Next ==
    \/ init
    \/ Stop
    \/ Away
    \/ Gate
    \/ LogCadence
    \/ \E o \in FetchOutcomes : get_live_reading(o)
    \/ retry_exhausted
    \/ process_and_write
    \/ PlotCadence
    \/ TruncateCadence
    \/ Sleep

Spec == Init /\ [][Next]_vars

---------------------------------------------------------------------------
(* The store on its own: write_data and truncate_earliest_data applied to  *)
(* a series file drawn from the states a store can be in.                  *)

Days(n) == n * SecondsPerDay

\* Timestamps of the records already stored, and the instant of the calls.
StoreStamps == { Days(0), Days(7), Days(19) }
StoreNow == Instant(Days(20), 250000)
RetentionWindows == { 1, 14 }

\* A stored record: a timestamp as write_data writes it, or the same instant
\* not zero-padded, or text that is no timestamp; and a value.
StoreRows ==
    { << Text(f, t, 0), StrNum(v) >> : f \in {FmtT, FmtTUnpadded}, t \in StoreStamps,
                                       v \in AqiValues }
    \cup { << Text(FmtJunk, 0, 0), StrNum(v) >> : v \in AqiValues }

\* Records are stored in the order they were appended.
InAppendOrder(rows) ==
    \A i, j \in 1..Len(rows) :
        (i < j /\ ParsesT(rows[i][1]) /\ ParsesT(rows[j][1])) => rows[i][1].s <= rows[j][1].s

StoreStates ==
    { Absent, File(<< >>) }
    \cup { File(<< HeaderRow >> \o rows) :
             rows \in { r \in UNION { [1..k -> StoreRows] : k \in 0..MaxRecords } :
                          InAppendOrder(r) } }

InitStore ==
    /\ config \in { [ShippedConfig EXCEPT !.use_default_storage_paths = FALSE,
                                          !.days_to_log = w] : w \in RetentionWindows }
    /\ policy = AppliedPolicy
    /\ now = StoreNow
    /\ pc = "store"
    /\ log_delay_loop_start = NoInstant
    /\ plot_delay_loop_start = NoInstant
    /\ truncate_delay_loop_start = NoInstant
    /\ dataFile \in StoreStates
    /\ ckptFile = NoCheckpoint
    /\ image = << >>
    /\ attempts = 0
    /\ calls = 0
    /\ served = << >>
    /\ waits = << >>
    /\ retryLog = << >>
    /\ response = NoResponse
    /\ tick = [hour |-> 0, did |-> {}]
    /\ last = NoOp
    /\ fault = ""
    /\ nTicks = 0
    /\ nRestarts = 0

\* write_data(v, True, path)
StoreAppend ==
    /\ pc = "store"
    /\ Len(dataFile.lines) <= MaxRecords + 1
    /\ \E v \in AqiValues :
          /\ dataFile' = write_data(v, TRUE, dataFile, now)
          /\ last' = StoreOp("write_data", dataFile, v, TRUE, "")
    /\ UNCHANGED << config, policy, now, pc, log_delay_loop_start, plot_delay_loop_start,
                    truncate_delay_loop_start, ckptFile, image, attempts, calls, served,
                    waits, retryLog, response, tick, fault, nTicks, nRestarts >>

\* truncate_earliest_data(path, config.days_to_log)
StoreTruncate ==
    /\ pc = "store"
    /\ LET r == truncate_earliest_data(dataFile, config.days_to_log)
       IN  /\ dataFile' = r.file
           /\ last' = StoreOp("truncate_earliest_data", dataFile, 0, r.wrote, r.raised)
    /\ UNCHANGED << config, policy, now, pc, log_delay_loop_start, plot_delay_loop_start,
                    truncate_delay_loop_start, ckptFile, image, attempts, calls, served,
                    waits, retryLog, response, tick, fault, nTicks, nRestarts >>

NextStore == StoreAppend \/ StoreTruncate

SpecStore == InitStore /\ [][NextStore]_vars

---------------------------------------------------------------------------
(* Claims.                                                                 *)

\* The invocations of this call so far, all but the last, met a retried failure.
FailedBefore(n) == \A i \in 1..(n - 1) : Retried(served[i].kind)
AllFailed == \A i \in 1..Len(served) : Retried(served[i].kind)
EventsAt(line) == { i \in 1..Len(retryLog) : retryLog[i].line = line }

\* C1: when the fetch fails transiently on its first k calls, k below the
\* attempt budget N, and succeeds on call k+1, the retry wrapper has handed
\* that call's result back to main() after exactly k+1 invocations and k
\* counted attempts, and the process has not been ended by the wrapper; the
\* wrapper ends the process only after N failed invocations.
C1_SuccessWithinBudgetReturns ==
    /\ LET n == Len(served)
       IN  (n > 0 /\ Raises(served[n]) = "" /\ FailedBefore(n))
              => /\ n <= policy.max_attempts
                 /\ response = served[n]
                 /\ calls = n
                 /\ attempts = n - 1
                 /\ pc \notin {"fetch", "exited"}
    /\ pc = "exited" => (Len(served) = policy.max_attempts /\ AllFailed)

\* C1 witness: a call that failed twice and then succeeded has returned.
C1_Witness ==
    /\ pc = "body"
    /\ Len(served) = 3
    /\ Retried(served[1].kind) /\ Retried(served[2].kind)
    /\ response = served[3]

InSpecWindow(h) == config.logging_start_hour <= h /\ h < config.logging_finish_hour

\* C4: on a tick whose hour is outside [start_hour, finish_hour) none of the
\* poll/append, render and truncation actions is performed.
C4_Original_NothingFiresOutsideWindow ==
    ~InSpecWindow(tick.hour) => tick.did = {}

\* C4 witness of the failing case: the hour is finish_hour and the log
\* cadence has fired.
C4_FiresAtFinishHour ==
    /\ tick.hour = config.logging_finish_hour
    /\ "log" \in tick.did

\* The instant a checkpoint text spells, and "now - c reaches n hours".
CheckpointInstant(c) == Instant(c.text.s, c.text.us)
Reached(a, b, hours) ==
    \/ a.s - b.s > hours * SecondsPerHour
    \/ (a.s - b.s = hours * SecondsPerHour /\ a.us >= b.us)

\* C5: a restart with a checkpoint c on disk completes, leaves the checkpoint
\* as it is and takes c as the truncation cadence's baseline, without
\* truncating; after it, a tick whose hour is in [start_hour, finish_hour) and
\* at which now - baseline has reached truncate_interval hours truncates (so
\* no such tick ends with the interval reached), and a truncation fires only
\* when the interval has been reached.
C5_Original_RestartResumesFromCheckpoint ==
    /\ [][(pc = "stopped" /\ pc' # "stopped" /\ ckptFile.exists)
            => /\ pc' = "gate"
               /\ ckptFile' = ckptFile
               /\ dataFile' = dataFile
               /\ truncate_delay_loop_start' = CheckpointInstant(ckptFile)]_vars
    /\ [][(nRestarts > 0 /\ pc = "trunc" /\ pc' = "sleep")
            => ("truncate" \in tick'.did
                  <=> Reached(now, truncate_delay_loop_start, config.truncate_interval))]_vars
    /\ [][(nRestarts > 0 /\ pc = "gate" /\ pc' = "sleep")
            => ~(/\ InSpecWindow(Hour(now))
                 /\ Reached(now, truncate_delay_loop_start, config.truncate_interval))]_vars

\* C5 witness of a failing case: the restart found the checkpoint the process
\* wrote and failed to read it.
C5_RestartRejectsCheckpoint ==
    /\ nRestarts > 0
    /\ pc = "crashed"
    /\ fault = CheckpointValueError

\* C6: for both settings of use_default_storage_paths, startup completes and
\* reaches the loop with a truncation baseline: the checkpoint's value when
\* the checkpoint file exists, and otherwise the startup time, written to a
\* new checkpoint file.
C6_Original_StartupReachesLoop ==
    [][(pc = "stopped" /\ pc' # "stopped")
         => /\ pc' = "gate"
            /\ IF ckptFile.exists
               THEN /\ ckptFile' = ckptFile
                    /\ truncate_delay_loop_start' = CheckpointInstant(ckptFile)
               ELSE /\ ckptFile'.exists
                    /\ CheckpointInstant(ckptFile') = now
                    /\ truncate_delay_loop_start' = now]_vars

\* C6 witness of the failing case: with the default storage paths init()
\* reads a name it never assigned.
C6_DefaultPathsCrash ==
    /\ config.use_default_storage_paths
    /\ pc = "crashed"
    /\ fault = "UnboundLocalError"
    /\ ~ckptFile.exists

\* What a read of the whole series returns: nothing when the file is absent or
\* empty, the parseable records otherwise.
SeriesOf(file) == ReadSeries(file).series

\* A store that holds a series: a header and records that are all samples.
HoldsSamples(file) ==
    /\ file.exists
    /\ Len(file.lines) >= 2
    /\ file.lines[1] = HeaderRow
    /\ \A i \in 2..Len(file.lines) :
          /\ Len(file.lines[i]) = 2
          /\ ParsesT(file.lines[i][1])
          /\ ParsesFloat(file.lines[i][2])

\* C7: whatever the store held (absent, empty, header only, header and
\* records), after write_data the series read back is the series readable
\* before followed by the sample written: the instant of the call to the
\* second, and the value.
C7_AppendThenReadEndsWithSample ==
    last.op = "write_data"
       => /\ ReadSeries(dataFile).raised = ""
          /\ SeriesOf(dataFile)
               = SeriesOf(last.before) \o << Sample(Instant(last.at.s, 0), last.v) >>

\* C7 witness: an append to a store that held a record that does not parse
\* and two that do.
C7_Witness ==
    /\ last.op = "write_data"
    /\ ReadSeries(last.before).skipped = 1
    /\ Len(SeriesOf(last.before)) = 2
    /\ Len(SeriesOf(dataFile)) = 3

\* C8 as claimed: once the store exists, its first line is datetime,value and
\* no other line is.
C8_Original_HeaderIsDatetimeValue ==
    dataFile.exists
       => /\ dataFile.lines # << >>
          /\ dataFile.lines[1] = << Word("datetime"), Word("value") >>
          /\ Cardinality({ i \in 1..Len(dataFile.lines) :
                             dataFile.lines[i] = << Word("datetime"), Word("value") >> }) = 1

\* C8 as amended: once the store, absent at first, exists, its first line is
\* datetime,pm25_epa_aqi and no other line is.
C8_HeaderWrittenOnce ==
    dataFile.exists
       => /\ dataFile.lines # << >>
          /\ dataFile.lines[1] = << Word("datetime"), Word("pm25_epa_aqi") >>
          /\ Cardinality({ i \in 1..Len(dataFile.lines) :
                             dataFile.lines[i] = << Word("datetime"), Word("pm25_epa_aqi") >> }) = 1

\* C8 witness: three appends have been made to the store.
C8_Witness ==
    /\ dataFile.exists
    /\ Len(dataFile.lines) = 4
    /\ last.op = "write_data"

\* The latest timestamp of a series, in seconds.
LatestSecond(series) ==
    CHOOSE m \in { series[i].t.s : i \in 1..Len(series) } :
        \A i \in 1..Len(series) : series[i].t.s <= m

\* C9: truncating a store that holds a series leaves exactly the samples whose
\* timestamp is at least the latest timestamp minus days_to_log days, in their
\* order, timestamps and values as they were.
C9_TruncationKeepsWindow ==
    (last.op = "truncate_earliest_data" /\ HoldsSamples(last.before))
       => /\ last.raised = ""
          /\ ReadSeries(dataFile).raised = ""
          /\ SeriesOf(dataFile)
               = SelectSeq(SeriesOf(last.before),
                           LAMBDA x : x.t.s >= LatestSecond(SeriesOf(last.before))
                                                 - config.days_to_log * SecondsPerDay)

\* C9 witness: samples at t-20d, t-13d, t-1d and t, a window of 14 days: the
\* three latest are left.
C9_Witness ==
    /\ last.op = "truncate_earliest_data"
    /\ config.days_to_log = 14
    /\ HoldsSamples(last.before)
    /\ Len(SeriesOf(last.before)) = 4
    /\ Len(SeriesOf(dataFile)) = 3
    /\ [i \in 1..4 |-> SeriesOf(last.before)[i].t.s] = << Days(0), Days(7), Days(19), Days(20) >>
    /\ [i \in 1..3 |-> SeriesOf(dataFile)[i].t.s] = << Days(7), Days(19), Days(20) >>

\* C10: a truncation that directly follows a truncation of a store holding a
\* series opens nothing for writing and leaves the file as the first left it.
C10_SecondTruncationIsNoOp ==
    (/\ last.op = "truncate_earliest_data"
     /\ last.prev = "truncate_earliest_data"
     /\ HoldsSamples(last.before))
       => /\ last.raised = ""
          /\ ~last.wrote
          /\ dataFile = last.before
          /\ SeriesOf(dataFile) = SeriesOf(last.before)

\* C10 witness: the first truncation rewrote the file, the second did not.
C10_Witness ==
    /\ last.op = "truncate_earliest_data"
    /\ last.prev = "truncate_earliest_data"
    /\ last.prevWrote
    /\ ~last.wrote
    /\ HoldsSamples(dataFile)

\* The payload of a response is not a well-formed reading.
Malformed(r) == r.kind = "response" /\ process_sensor_reading_raises(r) # ""

\* C11: when the log cadence has fired and the payload fetched is not a
\* well-formed reading, the step of main() that handles it appends no sample,
\* fetches no more, sets the log cadence's clock to now and goes on to the
\* render cadence: the scheduler keeps running.
C11_Original_MalformedPayloadSkipsCycle ==
    [][(pc = "body" /\ Malformed(response) /\ pc' \notin {"body", "stopped"})
          => /\ pc' = "plot"
             /\ dataFile' = dataFile
             /\ calls' = calls
             /\ log_delay_loop_start' = now]_vars

\* C11 witness of the failing case: a response with a success status whose
\* payload lacks a field has ended the process with the KeyError, the log
\* cadence's clock not reset.
C11_MalformedPayloadCrash ==
    /\ pc = "crashed"
    /\ fault = "KeyError"
    /\ response.ok /\ response.body = "missing_field"
    /\ "log" \in tick.did
    /\ log_delay_loop_start # now

\* The records of a series file (the lines after the header), those whose
\* timestamp parses and those whose timestamp does not.
Records(file) == IF file.lines = << >> THEN << >> ELSE Tail(file.lines)
ParseableRecords(file) == SelectSeq(Records(file), LAMBDA r : ParsesT(r[1]))
UnparseableRecords(file) == SelectSeq(Records(file), LAMBDA r : ~ParsesT(r[1]))

\* A store with a header, a record whose timestamp does not parse and one
\* whose timestamp does.
HoldsUnparseable(file) ==
    /\ file.exists
    /\ file.lines # << >>
    /\ file.lines[1] = HeaderRow
    /\ UnparseableRecords(file) # << >>
    /\ ParseableRecords(file) # << >>

\* C12: when the store holds a record whose timestamp does not parse, the
\* render step reads the series without raising, skipping that record and
\* loading every other one, and so does the truncator: it raises nothing.
C12_Original_UnparseableRecordSkipped ==
    /\ HoldsUnparseable(dataFile)
          => /\ plot_csv_to_jpg(dataFile).raised = ""
             /\ ReadSeries(dataFile).skipped = Len(UnparseableRecords(dataFile))
             /\ Len(plot_csv_to_jpg(dataFile).drawn) = Len(ParseableRecords(dataFile))
    /\ (last.op = "truncate_earliest_data" /\ HoldsUnparseable(last.before))
          => last.raised = ""

\* C12 witness of the failing case: the truncator has raised ValueError on a
\* store the render step reads, skipping one record of three.
C12_TruncatorRaisesOnUnparseable ==
    /\ last.op = "truncate_earliest_data"
    /\ last.raised = "ValueError"
    /\ HoldsUnparseable(last.before)
    /\ Len(UnparseableRecords(last.before)) = 1
    /\ Len(ParseableRecords(last.before)) = 2
    /\ plot_csv_to_jpg(last.before).raised = ""
    /\ Len(plot_csv_to_jpg(last.before).drawn) = 2

---------------------------------------------------------------------------
(* The rewrite of truncate_earliest_data, lines 177-180, step by step: the *)
(* file is opened with mode 'w', which empties it, then the header and the *)
(* kept records are written and the file is closed.  What has reached the  *)
(* disk in between depends on when the buffer is flushed; it is taken here *)
(* to be the new content up to some whole line.  The process can be ended  *)
(* from outside, and a write can fail, at any point in between.            *)

\* The content the rewrite under way is to leave.
RewriteTarget == truncate_earliest_data(last.before, config.days_to_log).file

\* line 177: open(full_data_file_path, mode='w')
RewriteOpen ==
    /\ pc = "store"
    /\ truncate_earliest_data(dataFile, config.days_to_log).wrote
    /\ dataFile' = File(<< >>)
    /\ last' = StoreOp("rewriting", dataFile, 0, TRUE, "")
    /\ pc' = "rewriting"
    /\ UNCHANGED << config, policy, now, log_delay_loop_start, plot_delay_loop_start,
                    truncate_delay_loop_start, ckptFile, image, attempts, calls, served,
                    waits, retryLog, response, tick, fault, nTicks, nRestarts >>

\* lines 179-180: writer.writeheader(), writer.writerows(filtered_data)
RewriteWrite ==
    /\ pc = "rewriting"
    /\ Len(dataFile.lines) < Len(RewriteTarget.lines)
    /\ dataFile' = File(Append(dataFile.lines, RewriteTarget.lines[Len(dataFile.lines) + 1]))
    /\ UNCHANGED << config, policy, now, pc, log_delay_loop_start, plot_delay_loop_start,
                    truncate_delay_loop_start, ckptFile, image, attempts, calls, served,
                    waits, retryLog, response, tick, last, fault, nTicks, nRestarts >>

\* the end of the with block of line 177: the file is closed, the call returns
RewriteClose ==
    /\ pc = "rewriting"
    /\ dataFile = RewriteTarget
    /\ last' = [last EXCEPT !.op = "truncate_earliest_data"]
    /\ pc' = "store"
    /\ UNCHANGED << config, policy, now, log_delay_loop_start, plot_delay_loop_start,
                    truncate_delay_loop_start, dataFile, ckptFile, image, attempts, calls,
                    served, waits, retryLog, response, tick, fault, nTicks, nRestarts >>

\* The process is ended from outside while the file is open for writing.
RewriteKilled ==
    /\ pc = "rewriting"
    /\ pc' = "stopped"
    /\ UNCHANGED << config, policy, now, log_delay_loop_start, plot_delay_loop_start,
                    truncate_delay_loop_start, dataFile, ckptFile, image, attempts, calls,
                    served, waits, retryLog, response, tick, last, fault, nTicks, nRestarts >>

\* A write fails (disk full): OSError leaves truncate_earliest_data and main().
RewriteFails ==
    /\ pc = "rewriting"
    /\ Len(dataFile.lines) < Len(RewriteTarget.lines)
    /\ Crash("OSError")
    /\ UNCHANGED << config, policy, now, log_delay_loop_start, plot_delay_loop_start,
                    truncate_delay_loop_start, dataFile, ckptFile, image, attempts, calls,
                    served, waits, retryLog, response, tick, last, nTicks, nRestarts >>

NextRewrite ==
    \/ StoreAppend
    \/ RewriteOpen
    \/ RewriteWrite
    \/ RewriteClose
    \/ RewriteKilled
    \/ RewriteFails

SpecRewrite == InitStore /\ [][NextRewrite]_vars

\* C13: when the process is ended, or a write fails, while the truncator is
\* rewriting the store, the series file holds either all it held before the
\* truncation or the header and all the records kept, never nothing and
\* never a part of them.
C13_Original_RewriteIsAllOrNothing ==
    (pc \in {"stopped", "crashed"} /\ last.op = "rewriting")
       => \/ dataFile = last.before
          \/ dataFile = RewriteTarget

\* C13 witness of the failing case: the process was ended during the rewrite
\* of a store of four samples, of which three were to be kept, and the file
\* is left with the header and one record.
C13_PartialRewriteLeft ==
    /\ pc = "stopped"
    /\ last.op = "rewriting"
    /\ HoldsSamples(last.before)
    /\ Len(last.before.lines) = 5
    /\ Len(RewriteTarget.lines) = 4
    /\ Len(dataFile.lines) = 2

\* C14: when the log cycle has a sample to append and the write to the series
\* file fails, the cycle appends no record and the scheduler goes on to the
\* render cadence: the process continues.
C14_Original_WriteFailureSkipsCycle ==
    [][(/\ pc = "body" /\ response.ok /\ ~Malformed(response)
        /\ pc' \notin {"body", "stopped"}
        /\ "append" \notin tick'.did)
          => /\ pc' = "plot"
             /\ dataFile' = dataFile]_vars

\* C14 witness of the failing case: a well-formed reading was fetched, the
\* write raised OSError, and the process has ended with it, a sample already
\* in the store.
C14_WriteFailureCrash ==
    /\ pc = "crashed"
    /\ fault = "OSError"
    /\ response.ok /\ ~Malformed(response)
    /\ "append" \notin tick.did
    /\ HoldsSamples(dataFile)

\* C15: on a tick at which the render cadence or the truncation cadence has
\* fired while the series file does not exist, no error has escaped and no
\* series file has been created: the scheduler is still running.
C15_Original_MissingFileIsNoOp ==
    (~dataFile.exists /\ tick.did \cap {"plot", "truncate"} # {})
       => pc \in Running

\* C15 witness of the failing case: the render cadence fired before any
\* append and the process has ended with FileNotFoundError.
C15_RenderCrashOnMissingFile ==
    /\ pc = "crashed"
    /\ fault = "FileNotFoundError"
    /\ ~dataFile.exists
    /\ "plot" \in tick.did

\* The sum of a sequence of numbers.
RECURSIVE SumSeq(_)
SumSeq(q) == IF q = << >> THEN 0 ELSE Head(q) + SumSeq(Tail(q))

\* The sum of D + E*i for i = 0 .. N-2.
TotalWait(p) ==
    (p.max_attempts - 1) * p.delay
       + p.escalation * (((p.max_attempts - 1) * (p.max_attempts - 2)) \div 2)

\* C16: within one retry sequence the wait after failed attempt number i
\* (from 0) is delay + escalation * i seconds; there is one wait for each
\* failed attempt but the N-th, so none before the first attempt, none after
\* a success and none after the last failure of a spent budget, whose waits
\* sum to the sum of D + E*i for i = 0 .. N-2.
C16_WaitsEscalate ==
    /\ \A i \in 1..Len(waits) : waits[i] = policy.delay + policy.escalation * (i - 1)
    /\ Len(waits) = IF attempts < policy.max_attempts THEN attempts
                    ELSE policy.max_attempts - 1
    /\ (Len(served) > 0 /\ Raises(served[Len(served)]) = "")
          => Len(waits) = Len(served) - 1
    /\ pc = "exited"
          => /\ Len(waits) = policy.max_attempts - 1
             /\ SumSeq(waits) = TotalWait(policy)

\* C16 witness: a budget of three spent with delay 2 and escalation 10: the
\* waits were of 2 and 12 seconds.
C16_Witness ==
    /\ pc = "exited"
    /\ policy = DefaultPolicy
    /\ waits = << 2, 12 >>
    /\ attempts = 3

C18_Original_InWindowTickNotGated ==
    [][(pc = "gate" /\ InSpecWindow(Hour(now)) /\ pc' \notin {"gate", "stopped"})
          => pc' = "log"]_vars

\* C18 witness of the failing case: with the shipped window, a tick at hour 0
\* has ended with nothing done while the log cadence's interval had passed.
C18_GatedAtStartHour ==
    /\ pc = "sleep"
    /\ config.logging_start_hour = 0 /\ config.logging_finish_hour = 24
    /\ tick.hour = 0
    /\ Hour(now) = 0
    /\ tick.did = {}
    /\ ElapsedExceeds(now, log_delay_loop_start, config.logging_interval)

\* A store that exists and holds no record: a zero-length file, or the
\* header alone.
HoldsNoRecord(file) == file.exists /\ Records(file) = << >>

\* C19: the truncator run on a store that exists and holds no record raises
\* nothing, opens nothing for writing and leaves the file as it is.
C19_Original_EmptyStoreTruncationIsNoOp ==
    (last.op = "truncate_earliest_data" /\ HoldsNoRecord(last.before))
       => /\ last.raised = ""
          /\ ~last.wrote
          /\ dataFile = last.before

\* C19 witness of the failing case: the truncator has raised ValueError on a
\* store holding the header alone.
C19_EmptyStoreRaises ==
    /\ last.op = "truncate_earliest_data"
    /\ last.before = File(<< HeaderRow >>)
    /\ last.raised = "ValueError"

\* b is a with some of its elements removed, the others in their order.
IsSubSeq(b, a) ==
    \E f \in [1..Len(b) -> 1..Len(a)] :
        /\ \A i, j \in 1..Len(b) : i < j => f[i] < f[j]
        /\ \A i \in 1..Len(b) : a[f[i]] = b[i]

\* C20: across a run of the scheduler the series file changes only when a
\* log cycle whose poll succeeded appends one record at its end, the records
\* before it as they were, and when a truncation removes records, the others
\* as they were and in their order; a log cycle whose poll did not succeed
\* and the render step leave the file as it is.
C20_StoreChangesOnlyByAppendOrTruncation ==
    [][/\ dataFile' # dataFile
            => \/ /\ pc = "body" /\ response.ok
                  /\ Records(dataFile')
                       = Append(Records(dataFile), << Strftime(now), StrNum(response.aqi) >>)
               \/ /\ pc = "trunc"
                  /\ Len(Records(dataFile')) < Len(Records(dataFile))
                  /\ IsSubSeq(Records(dataFile'), Records(dataFile))
       /\ (pc = "body" /\ ~response.ok) => dataFile' = dataFile
       /\ pc \in {"fetch", "plot"} => dataFile' = dataFile]_vars

\* C20 witness: after three appends a truncation has removed the first record
\* and left the other two.
C20_Witness ==
    /\ last.op = "truncate_earliest_data"
    /\ last.wrote
    /\ Len(Records(last.before)) = 3
    /\ Records(dataFile) = Tail(Records(last.before))
    /\ image # << >>

---------------------------------------------------------------------------
(* The scheduler under a wall clock.  datetime.now() reads the local wall  *)
(* clock, which is set back when daylight saving time ends and when the    *)
(* date or time of the machine is corrected.                               *)

\* By how much the wall clock is set back: an hour, a day.
ClockSetBacks == { SecondsPerHour, SecondsPerDay }

\* The wall clock when the process is first started: 02:00 of the second day.
WallClockStart == Days(1) + 2 * SecondsPerHour

InitWallClock ==
    /\ config \in Configs
    /\ policy \in Policies
    /\ now \in { Instant(WallClockStart, us) : us \in Micros }
    /\ pc = "stopped"
    /\ log_delay_loop_start = NoInstant
    /\ plot_delay_loop_start = NoInstant
    /\ truncate_delay_loop_start = NoInstant
    /\ dataFile = Absent
    /\ ckptFile = NoCheckpoint
    /\ image = << >>
    /\ attempts = 0
    /\ calls = 0
    /\ served = << >>
    /\ waits = << >>
    /\ retryLog = << >>
    /\ response = NoResponse
    /\ tick = [hour |-> 0, did |-> {}]
    /\ last = NoOp
    /\ fault = ""
    /\ nTicks = 0
    /\ nRestarts = 0

\* The wall clock is set back, the process running or stopped.
ClockSetBack ==
    /\ pc \in Running \cup {"stopped"}
    /\ nTicks < MaxTicks
    /\ nTicks' = nTicks + 1
    /\ \E d \in ClockSetBacks :
          /\ now.s - d >= 0
          /\ now' = Instant(now.s - d, now.us)
    /\ UNCHANGED << config, policy, pc, log_delay_loop_start, plot_delay_loop_start,
                    truncate_delay_loop_start, dataFile, ckptFile, image, attempts,
                    calls, served, waits, retryLog, response, tick, last, fault, nRestarts >>

NextWallClock ==
    \/ Next
    \/ ClockSetBack

SpecWallClock == InitWallClock /\ [][NextWallClock]_vars

\* C21: in every state of the store reached by the scheduler's appends and
\* truncations, restarts of the process included, the timestamps of the
\* stored records are non-decreasing in file order.
C21_Original_TimestampsNonDecreasing ==
    dataFile.exists => InAppendOrder(Records(dataFile))

\* C21 witness of the failing case: after a restart the process has appended
\* a record whose timestamp is before that of the record stored before it.
C21_LaterRecordIsEarlier ==
    /\ nRestarts > 0
    /\ last.op = "write_data"
    /\ Len(Records(dataFile)) = 2
    /\ StrptimeT(Records(dataFile)[2][1]).s < StrptimeT(Records(dataFile)[1][1]).s

\* C22: every checkpoint the process has written, at first startup or after
\* a truncation, whatever the microseconds of the instant, is text the
\* startup reader accepts and parses back to the instant written (the
\* truncation cadence's baseline of the process that wrote or read it), and
\* no restart fails on the checkpoint.
C22_Original_CheckpointRoundTrips ==
    /\ ckptFile.exists
          => /\ ParsesStrF(ckptFile.text)
             /\ pc \in Running
                   => StrptimeStrF(ckptFile.text) = truncate_delay_loop_start
    /\ ~(pc = "crashed" /\ fault = CheckpointValueError)

\* C22 witness of the failing case: a truncation at an instant of zero
\* microseconds wrote the checkpoint without a fraction, and the restart
\* that followed has ended with the reader's ValueError.
C22_CheckpointWithoutFractionRejected ==
    /\ nRestarts > 0
    /\ pc = "crashed"
    /\ fault = CheckpointValueError
    /\ last.op = "truncate_earliest_data"
    /\ ckptFile.exists
    /\ ckptFile.text.fmt = FmtStr
    /\ ckptFile.text.s = last.at.s
    /\ last.at.us = 0

=============================================================================
